---- MODULE Spec2Model ----
(***************************************************************************)
(* Model of the NYC taxi data-lake pipeline: the four task callables of    *)
(* tasks/nyc_task.py (fetch, transform, store, export) acting on files     *)
(* under DATA_ROOT, sequenced by the DAG of dags/nyc_pipeline.py.          *)
(*                                                                         *)
(* Strings are modelled as sequences of tokens (a token is a piece of a    *)
(* string that the code never splits), so that string concatenation is     *)
(* sequence concatenation and two paths are equal exactly when their token *)
(* sequences are equal.  A data file is a sequence of chunks of ChunkBytes *)
(* bytes each; a text file is a sequence of lines.  The directories under  *)
(* DATA_ROOT can always be created (mkdir with exist_ok succeeds).         *)
(***************************************************************************)
EXTENDS Integers, Sequences, FiniteSets, TLC

\* ---------------------------------------------------------------- bounds
MaxLen == 2          \* longest data file, in chunks
MaxReruns == 1       \* how often one DAG run is cleared and run again
ChunkBytes == 524288 \* bytes per chunk of a data file
MaxIdLen == 2        \* longest run identifier, in tokens

\* ------------------------------------------------------------- constants
MiB == 1048576
InputRecordsPerMb == 20000
StoreRecordsPerMb == 50000
CurlRetry == 3

Bytes == {1, 2}
\* A file system entry: no file, or a file with its content.
Absent == [exists |-> FALSE, data |-> <<>>]
File(d) == [exists |-> TRUE, data |-> d]

Stages == {"fetch", "transform", "store", "export"}

\* The tokens of a path-safe run identifier (ts_nodash): no separator, but
\* pieces that also occur in the file names the code builds.
IdTokens == {"0", "raw_", "transformed_", ".parquet"}

\* Every path-safe run identifier of up to MaxIdLen tokens.
PathSafeIds == UNION {[1..n -> IdTokens] : n \in 1..MaxIdLen}

\* The run identifiers the DAG runs are triggered with.
RunIds == {<<"0">>, <<"0", "0">>, <<"raw_", "0">>}

\* ------------------------------------------------------------ path model
DATA_ROOT == <<"DATA_ROOT">>

\* pathlib's "/" operator: join two path pieces with a separator
Join(a, b) == a \o <<"/">> \o b

MutFlatLocationFor(stage, ts) ==
  CASE stage = "fetch"     -> Join(DATA_ROOT, <<"nyc_taxi_", "raw_">> \o ts)
    [] stage = "transform" -> Join(DATA_ROOT, <<"nyc_taxi_", "transformed_">> \o ts)
    [] stage = "store"     -> Join(DATA_ROOT, <<"nyc_taxi_">> \o ts)
    [] stage = "export"    -> Join(DATA_ROOT, <<"taxi_report_">> \o ts)

MutSharedLocationFor(stage, ts) ==
  CASE stage = "fetch"     ->
         Join(Join(DATA_ROOT, <<"raw">>), <<"nyc_taxi_", "raw_", ".parquet">>)
    [] stage = "transform" ->
         Join(Join(DATA_ROOT, <<"transformed">>), <<"nyc_taxi_", "transformed_", ".parquet">>)
    [] stage = "store"     ->
         Join(Join(DATA_ROOT, <<"duckdb">>), <<"nyc_taxi_", ".duckdb">>)
    [] stage = "export"    ->
         Join(Join(DATA_ROOT, <<"export">>), <<"taxi_report_", ".csv">>)

\* The output location of a stage for a run.
locationFor(stage, ts) ==
  CASE stage = "fetch"     ->
         Join(Join(DATA_ROOT, <<"raw">>), <<"nyc_taxi_", "raw_">> \o ts \o <<".parquet">>)
    [] stage = "transform" ->
         Join(Join(DATA_ROOT, <<"transformed">>),
              <<"nyc_taxi_", "transformed_">> \o ts \o <<".parquet">>)
    [] stage = "store"     ->
         Join(Join(DATA_ROOT, <<"duckdb">>), <<"nyc_taxi_">> \o ts \o <<".duckdb">>)
    [] stage = "export"    ->
         Join(Join(DATA_ROOT, <<"export">>), <<"taxi_report_">> \o ts \o <<".csv">>)

Locations == {locationFor(s, ts) : s \in Stages, ts \in RunIds}

\* ------------------------------------------------------------ file model
\* What the source URL can serve: nothing, or up to MaxLen chunks of one of
\* the versions of the data set (a version is told by the byte in its chunks).
Bodies == {[i \in 1..n |-> b] : n \in 0..MaxLen, b \in Bytes}

StrictPrefixes(s) == {SubSeq(s, 1, k) : k \in 0..(Len(s) - 1)}

exists(f) == f.exists

\* st_size of a data file
st_size(f) == Len(f.data) * ChunkBytes

VARIABLES
  runs,     \* the run identifiers of the DAG runs that were triggered
  fs,       \* the files under DATA_ROOT: location -> content, or Absent
  task,     \* per run and stage, the task instance state
  attempt,  \* per run, how often it has been cleared and run again
  ever,     \* per run, the stages that have returned success at least once
  last      \* the most recent task invocation and how it ended

vars == <<runs, fs, task, attempt, ever, last>>

\* last: op is the task (or "rerun", "retention"), run its run identifier,
\* how the way its subprocess or file write ended, kind the way the
\* callable ended, ok whether it returned instead of raising, ret what it
\* returned.
\* transfers counts the transfer attempts curl made in a fetch.
NoCall ==
  [op |-> "none", run |-> <<>>, ok |-> FALSE, kind |-> "none", how |-> "none",
   ret |-> <<>>, transfers |-> 0]

Call(op, r, ok, kind, how, ret) ==
  [op |-> op, run |-> r, ok |-> ok, kind |-> kind, how |-> how, ret |-> ret,
   transfers |-> 0]

InitFor(rs) ==
  /\ runs = rs
  /\ fs = [l \in Locations |-> Absent]
  /\ task = [r \in rs |-> [s \in Stages |-> "none"]]
  /\ attempt = [r \in rs |-> 0]
  /\ ever = [r \in rs |-> {}]
  /\ last = NoCall

\* one DAG run is triggered
Init == \E r \in RunIds : InitFor({r})

\* ------------------------------------------------------------------ DAG
\* extract >> transform >> load >> export
Upstream(stage) ==
  CASE stage = "fetch"     -> {}
    [] stage = "transform" -> {"fetch"}
    [] stage = "store"     -> {"transform"}
    [] stage = "export"    -> {"store"}

MutRunnable(r, stage) == task[r][stage] = "none"

\* A task instance is scheduled once, when all its upstream tasks succeeded.
Runnable(r, stage) ==
  /\ task[r][stage] = "none"
  /\ \A u \in Upstream(stage) : task[r][u] = "success"

\* The task instance ends: the callable returned (ok) or raised
\* AirflowFailException, which fails the task at once: the "retries" of
\* default_args apply to no exception that leaves these callables.
FinishCurl(r, stage, ok, kind, how, ret, transfers) ==
  /\ task' = [task EXCEPT ![r][stage] = IF ok THEN "success" ELSE "failed"]
  /\ ever' = [ever EXCEPT ![r] = IF ok THEN @ \cup {stage} ELSE @]
  /\ last' = [Call(stage, r, ok, kind, how, ret) EXCEPT !.transfers = transfers]
  /\ UNCHANGED <<runs, attempt>>

Finish(r, stage, ok, kind, how, ret) == FinishCurl(r, stage, ok, kind, how, ret, 0)

\* ---------------------------------------------------------------- FETCH
\* What running curl leaves behind: how the subprocess ended and the file
\* at raw_path.  "exit0": curl returned 0; "exitN": curl returned non-zero
\* (HTTP error, connection failure, retries exhausted); "timeout":
\* subprocess.run gave up and killed curl; "oserror": starting the
\* subprocess raised.  transfers is the number of transfer attempts of the
\* one curl process: the first, and one more after each transient failure
\* while the --retry budget lasts.
MutTransferCounts == 1..(CurlRetry + 2)

TransferCounts == 1..(CurlRetry + 1)

CurlResults(old, body) ==
  LET ends ==
             {[how |-> "exit0", file |-> File(body)]}
        \cup (IF body = <<>> THEN {[how |-> "exit0", file |-> old]} ELSE {})
        \cup {[how |-> h, file |-> f] :
                h \in {"exitN", "timeout"},
                f \in {old} \cup {File(p) : p \in StrictPrefixes(body)}} IN
       {[how |-> e.how, file |-> e.file, transfers |-> n] :
          e \in ends, n \in TransferCounts}
  \cup {[how |-> "oserror", file |-> old, transfers |-> 0]}

MutFetchKind(how, file) ==
  CASE how = "timeout" -> "Timeout"
    [] how = "oserror" -> "Error"
    [] how = "exitN"   -> "TransportFailure"
    [] how = "exit0"   -> IF ~exists(file) THEN "EmptyResult" ELSE "Success"

\* How fetch_taxi_data ends, given how curl ended and the file it left.
FetchKind(how, file) ==
  CASE how = "timeout" -> "Timeout"
    [] how = "oserror" -> "Error"
    [] how = "exitN"   -> "TransportFailure"
    [] how = "exit0"   -> IF ~exists(file) \/ st_size(file) = 0
                          THEN "EmptyResult" ELSE "Success"

fetch_taxi_data(r) ==
  /\ r \in runs
  /\ Runnable(r, "fetch")
  /\ LET raw_path == locationFor("fetch", r) IN
     \E body \in Bodies : \E res \in CurlResults(fs[raw_path], body) :
       LET kind == FetchKind(res.how, res.file)
           ok == kind = "Success" IN
       /\ fs' = [fs EXCEPT ![raw_path] = res.file]
       /\ FinishCurl(r, "fetch", ok, kind, res.how, IF ok THEN raw_path ELSE <<>>,
                     res.transfers)

\* ------------------------------------------------------------ TRANSFORM
\* What running cp leaves behind.  "exit0": the copy is complete; "exitN":
\* cp returned non-zero (source unreadable, disk full) and may have left a
\* partial destination; "timeout": subprocess.run killed cp mid-copy;
\* "oserror": a call before the copy raised.
CpResults(src, dst) ==
  IF ~exists(src)
  THEN {[how |-> "exitN", file |-> dst]}
  ELSE      {[how |-> "exit0", file |-> File(src.data)]}
       \cup {[how |-> h, file |-> f] :
               h \in {"exitN", "timeout"},
               f \in {dst} \cup {File(p) : p \in StrictPrefixes(src.data)}}
       \cup {[how |-> "oserror", file |-> dst]}

MutAlreadyTransformed(transformed_file) == FALSE

\* "Check if already transformed"
AlreadyTransformed(transformed_file) == exists(transformed_file)

MutTransformInputMissing(raw_file) == FALSE

\* "Check if input file exists"
TransformInputMissing(raw_file) == ~exists(raw_file)

MutCopyKind(how, file) ==
  CASE how = "timeout" -> "Timeout"
    [] how = "oserror" -> "Error"
    [] how \in {"exitN", "exit0"} ->
         IF ~exists(file) \/ st_size(file) = 0 THEN "EmptyResult" ELSE "Success"

\* How transform_taxi_data ends after cp ran.
CopyKind(how, file) ==
  CASE how = "timeout" -> "Timeout"
    [] how = "oserror" -> "Error"
    [] how = "exitN"   -> "CopyFailure"
    [] how = "exit0"   -> IF ~exists(file) \/ st_size(file) = 0
                          THEN "EmptyResult" ELSE "Success"

\* Every way one call of transform_taxi_data can end: the kind of ending
\* and the file it leaves at the transformed location.
TransformResults(raw_file, transformed_file) ==
  IF AlreadyTransformed(transformed_file)
  THEN {[kind |-> "Skipped", how |-> "none", file |-> transformed_file]}
  ELSE IF TransformInputMissing(raw_file)
  THEN {[kind |-> "MissingInput", how |-> "none", file |-> transformed_file]}
  ELSE {[kind |-> CopyKind(res.how, res.file), how |-> res.how, file |-> res.file] :
          res \in CpResults(raw_file, transformed_file)}

Returns(kind) == kind \in {"Success", "Skipped"}

transform_taxi_data(r) ==
  /\ r \in runs
  /\ Runnable(r, "transform")
  /\ LET raw_file == locationFor("fetch", r)
         transformed_file == locationFor("transform", r) IN
     \E res \in TransformResults(fs[raw_file], fs[transformed_file]) :
       /\ fs' = [fs EXCEPT ![transformed_file] = res.file]
       /\ Finish(r, "transform", Returns(res.kind), res.kind, res.how,
                 IF Returns(res.kind) THEN transformed_file ELSE <<>>)

\* ---------------------------------------------------------------- STORE
\* The five lines of the placeholder file; now stands for datetime.now().
PlaceholderLines(transformed_path, ts, now) ==
  << <<"DuckDB placeholder created at", now>>,
     <<"Source:", transformed_path>>,
     <<"Timestamp:", ts>>,
     <<"# In real implementation">>,
     <<"# Created by">> >>

\* Bytes of one placeholder line, for a 15-character ts_nodash.
LineBytes(line) ==
  CASE line[1] = "DuckDB placeholder created at" -> 57
    [] line[1] = "Source:"                       -> 141
    [] line[1] = "Timestamp:"                    -> 27
    [] line[1] = "# In real implementation"      -> 61
    [] line[1] = "# Created by"                  -> 80

RECURSIVE TextBytes(_)
TextBytes(lines) ==
  IF lines = <<>> THEN 0 ELSE LineBytes(Head(lines)) + TextBytes(Tail(lines))

\* int(size_mb * per_mb), with size_mb = bytes / 1024 / 1024: the integer
\* part of bytes * per_mb / 2^20, computed without leaving 32 bits
EstimatedRecords(bytes, per_mb) ==
  LET whole == bytes \div MiB
      part == bytes % MiB
      hi == part \div 1024
      lo == part % 1024 IN
  whole * per_mb + (hi * per_mb + (lo * per_mb) \div 1024) \div 1024

\* What open(duckdb_file, 'w') and the five writes leave behind: "written":
\* all five lines; "oserror": open, a write or the closing flush raised,
\* leaving no file, an empty file or the first lines.
WriteResults(dst, lines) ==
       {[how |-> "written", file |-> File(lines)]}
  \cup {[how |-> "oserror", file |-> f] :
          f \in {dst} \cup {File(p) : p \in StrictPrefixes(lines)}}

MutAlreadyStored(duckdb_file) == FALSE

\* "Check if already stored"
AlreadyStored(duckdb_file) == exists(duckdb_file)

\* "Check if input file exists"
StoreInputMissing(transformed_file) == ~exists(transformed_file)

\* How store_taxi_data ends after the write.
StoreKind(how, file) ==
  CASE how = "oserror" -> "Error"
    [] how = "written" -> IF ~exists(file) THEN "StoreCreationFailure" ELSE "Success"

\* Every way one call of store_taxi_data can end: the kind of ending, the
\* file it leaves at the store location and the record count it returns.
StoreResults(transformed_file, duckdb_file, lines) ==
  IF AlreadyStored(duckdb_file)
  THEN {[kind |-> "Skipped", how |-> "none", file |-> duckdb_file,
         records |-> EstimatedRecords(TextBytes(duckdb_file.data), StoreRecordsPerMb)]}
  ELSE IF StoreInputMissing(transformed_file)
  THEN {[kind |-> "MissingInput", how |-> "none", file |-> duckdb_file,
         records |-> 0]}
  ELSE {[kind |-> StoreKind(res.how, res.file), how |-> res.how, file |-> res.file,
         records |-> EstimatedRecords(st_size(transformed_file), InputRecordsPerMb)] :
          res \in WriteResults(duckdb_file, lines)}

store_taxi_data(r) ==
  /\ r \in runs
  /\ Runnable(r, "store")
  /\ LET transformed_file == locationFor("transform", r)
         duckdb_file == locationFor("store", r)
         lines == PlaceholderLines(transformed_file, r, attempt[r]) IN
     \E res \in StoreResults(fs[transformed_file], fs[duckdb_file], lines) :
       /\ fs' = [fs EXCEPT ![duckdb_file] = res.file]
       /\ Finish(r, "store", Returns(res.kind), res.kind, res.how,
                 IF Returns(res.kind) THEN <<res.records>> ELSE <<>>)

\* --------------------------------------------------------------- EXPORT
\* n / d rounded to the nearest integer, ties to even (printf rounding of
\* an exactly represented value)
RoundHalfEven(n, d) ==
  LET q == n \div d
      twice == 2 * (n % d) IN
  IF twice < d THEN q
  ELSE IF twice > d THEN q + 1
  ELSE IF q % 2 = 0 THEN q ELSE q + 1

\* f"{size_mb:.2f}" as <<whole part, first decimal, second decimal>>
Format2(bytes) ==
  LET h == RoundHalfEven(bytes * 100, MiB) IN
  <<h \div 100, (h % 100) \div 10, h % 10>>

MutSizeInfo(raw_file) ==
  IF exists(raw_file) THEN Format2(st_size(raw_file)) ELSE <<0, 0>>

\* size_info: "0.00" unless the raw file exists
SizeInfo(raw_file) ==
  IF exists(raw_file) THEN Format2(st_size(raw_file)) ELSE <<0, 0, 0>>

ReportHeader == <<"report_date", "status", "file_size_mb">>

ReportLines(ts, size_info) == <<ReportHeader, <<ts, "processed", size_info>> >>

\* What open(output_file, 'w') and the two writes leave behind.
ReportResults(dst, lines) ==
       {[how |-> "written", file |-> File(lines)]}
  \cup {[how |-> "oserror", file |-> f] :
          f \in {dst} \cup {File(p) : p \in StrictPrefixes(lines)}}

\* How export_taxi_report ends.
ExportKind(how) == IF how = "written" THEN "Success" ELSE "WriteFailure"

export_taxi_report(r) ==
  /\ r \in runs
  /\ Runnable(r, "export")
  /\ LET output_file == locationFor("export", r)
         raw_file == locationFor("fetch", r)
         lines == ReportLines(r, SizeInfo(fs[raw_file])) IN
     \E res \in ReportResults(fs[output_file], lines) :
       LET kind == ExportKind(res.how) IN
       /\ fs' = [fs EXCEPT ![output_file] = res.file]
       /\ Finish(r, "export", Returns(kind), kind, res.how,
                 IF Returns(kind) THEN output_file ELSE <<>>)

\* --------------------------------------------------------- orchestrator
RunOver(r) ==
  \/ \E s \in Stages : task[r][s] = "failed"
  \/ \A s \in Stages : task[r][s] = "success"

\* The finished DAG run is cleared and runs again from its first task with
\* the same logical date, hence the same ts_nodash.
Rerun(r) ==
  /\ r \in runs
  /\ RunOver(r)
  /\ attempt[r] < MaxReruns
  /\ task' = [task EXCEPT ![r] = [s \in Stages |-> "none"]]
  /\ attempt' = [attempt EXCEPT ![r] = @ + 1]
  /\ last' = Call("rerun", r, TRUE, "none", "none", <<>>)
  /\ UNCHANGED <<runs, fs, ever>>

\* The retention policy outside the pipeline deletes one artifact.
Retention(r, stage) ==
  /\ r \in runs
  /\ exists(fs[locationFor(stage, r)])
  /\ fs' = [fs EXCEPT ![locationFor(stage, r)] = Absent]
  /\ last' = Call("retention", r, TRUE, stage, "none", <<>>)
  /\ UNCHANGED <<runs, task, attempt, ever>>

Stage(r) ==
  \/ fetch_taxi_data(r)
  \/ transform_taxi_data(r)
  \/ store_taxi_data(r)
  \/ export_taxi_report(r)

Next ==
  \/ \E r \in RunIds : Stage(r)
  \/ \E r \in RunIds : Rerun(r)

Spec == Init /\ [][Next]_vars

\* The same pipeline with the external retention policy at work.
NextRetention ==
  \/ Next
  \/ \E r \in RunIds, s \in Stages : Retention(r, s)

SpecRetention == Init /\ [][NextRetention]_vars

\* Two DAG runs with distinct logical dates, their tasks interleaved.
InitTwo == \E r1, r2 \in RunIds : r1 # r2 /\ InitFor({r1, r2})

NextTwo == \E r \in RunIds : Stage(r)

SpecTwo == InitTwo /\ [][NextTwo]_vars

\* ---------------------------------------------------------- blocking I/O
\* The calls that wait for I/O: curl's network transfer, cp's file copy and
\* the write of the store file.
BlockingStages == {"fetch", "transform", "store"}

\* The calls that are given a timeout: subprocess.run(curl_cmd,
\* timeout=1900) and subprocess.run(['cp', ...], timeout=300).  The store
\* file is written with open() and f.write(), which take none.
HasTimeout(stage) == stage \in {"fetch", "transform"}

\* The invocation has reached its I/O call, and the call does not return.
Blocks(r, stage) ==
  /\ r \in runs
  /\ stage \in BlockingStages
  /\ Runnable(r, stage)
  /\ stage = "transform" =>
       /\ ~AlreadyTransformed(fs[locationFor("transform", r)])
       /\ ~TransformInputMissing(fs[locationFor("fetch", r)])
  /\ stage = "store" =>
       /\ ~AlreadyStored(fs[locationFor("store", r)])
       /\ ~StoreInputMissing(fs[locationFor("transform", r)])
  /\ task' = [task EXCEPT ![r][stage] = "blocked"]
  /\ last' = Call(stage, r, FALSE, "Blocked", "blocked", <<>>)
  /\ UNCHANGED <<runs, fs, attempt, ever>>

\* subprocess.run kills the blocked child after its timeout and raises
\* TimeoutExpired, which the callable turns into a failure.
TimeoutExpired(r, stage) ==
  /\ r \in runs
  /\ task[r][stage] = "blocked"
  /\ HasTimeout(stage)
  /\ LET src == fs[locationFor("fetch", r)]
         dst == fs[locationFor(stage, r)]
         left == IF stage = "fetch"
                 THEN UNION {CurlResults(dst, body) : body \in Bodies}
                 ELSE CpResults(src, dst) IN
     \E res \in {x \in left : x.how = "timeout"} :
       LET kind == IF stage = "fetch" THEN FetchKind(res.how, res.file)
                   ELSE CopyKind(res.how, res.file) IN
       /\ fs' = [fs EXCEPT ![locationFor(stage, r)] = res.file]
       /\ Finish(r, stage, Returns(kind), kind, res.how, <<>>)

NextBlocking ==
  \/ Next
  \/ \E r \in RunIds, s \in Stages : Blocks(r, s)
  \/ \E r \in RunIds, s \in Stages : TimeoutExpired(r, s)

\* The pipeline with I/O calls that may block; a timeout that is set fires.
SpecBlocking ==
  /\ Init
  /\ [][NextBlocking]_vars
  /\ \A r \in RunIds : \A s \in Stages : WF_vars(TimeoutExpired(r, s))

\* ================================================================ claims
raw_of(r) == fs[locationFor("fetch", r)]
transformed_of(r) == fs[locationFor("transform", r)]
duckdb_of(r) == fs[locationFor("store", r)]
report_of(r) == fs[locationFor("export", r)]

NonEmpty(f) == exists(f) /\ f.data # <<>>

\* the step is the invocation of the task of this stage for run r
Invokes(r, stage) ==
  /\ r \in runs
  /\ task[r][stage] = "none"
  /\ task'[r][stage] # "none"

\* C1: after a Transform or Load invocation that ended in failure, no file
\* exists at that stage's output location for the run.
C1_FailureLeavesNoOutput ==
  (last.op \in {"transform", "store"} /\ ~last.ok)
    => ~exists(fs[locationFor(last.op, last.run)])

\* C2: a Fetch that leaves a zero-byte raw file reports a failure; Transform
\* never copies a zero-byte raw file nor returns success from it; and a
\* stage does work (copies, writes the store) only when the artifact of the
\* stage before it is present and non-empty.
C2_EmptyInputNeverUsed ==
  /\ (last.op = "fetch" /\ exists(raw_of(last.run)) /\ st_size(raw_of(last.run)) = 0)
       => ~last.ok
  /\ (last.op = "transform" /\ last.how # "none")
       => NonEmpty(raw_of(last.run))
  /\ (last.op = "transform" /\ last.ok)
       => NonEmpty(raw_of(last.run))
  /\ (last.op = "store" /\ last.how # "none")
       => NonEmpty(transformed_of(last.run))

\* C3 as stated: Transform invoked while the raw artifact does not exist
\* ends in a missing-input failure whatever else is on disk, and so does
\* Load invoked while the transformed artifact does not exist.
C3_MissingInputAlwaysFails ==
  /\ (last.op = "transform" /\ ~exists(raw_of(last.run)))
       => last.kind = "MissingInput"
  /\ (last.op = "store" /\ ~exists(transformed_of(last.run)))
       => last.kind = "MissingInput"

\* C3 amended: Transform invoked while neither the raw artifact nor its own
\* transformed output exists ends in a missing-input failure, and so does
\* Load invoked while neither the transformed artifact nor its own store
\* file exists.
C3_MissingInputFailsUnlessDone ==
  [][\A r \in RunIds :
       /\ (Invokes(r, "transform") /\ ~exists(raw_of(r)) /\ ~exists(transformed_of(r)))
            => (last'.kind = "MissingInput" /\ ~last'.ok)
       /\ (Invokes(r, "store") /\ ~exists(transformed_of(r)) /\ ~exists(duckdb_of(r)))
            => (last'.kind = "MissingInput" /\ ~last'.ok)]_vars

\* C3 witness: Load was invoked with neither input nor output on disk and
\* failed for the missing input.
C3_Witness ==
  /\ last.op = "store"
  /\ last.kind = "MissingInput"
  /\ ~exists(transformed_of(last.run))
  /\ ~exists(duckdb_of(last.run))

\* C4: once Transform (resp. Load) has succeeded for a run, every later
\* invocation for the same run writes nothing, leaves every file as it is
\* and returns success; Transform returns the location of the artifact.
C4_RerunAfterSuccessSkips ==
  [][\A r \in RunIds : \A stage \in {"transform", "store"} :
       (Invokes(r, stage) /\ stage \in ever[r])
         => /\ last'.ok
            /\ last'.kind = "Skipped"
            /\ fs' = fs
            /\ exists(fs[locationFor(stage, r)])
            /\ stage = "transform" => last'.ret = locationFor("transform", r)]_vars

\* C4 witness: Load skipped over the complete store file that an earlier
\* attempt of the same run wrote, after Transform skipped as well.
C4_Witness ==
  /\ last.op = "store"
  /\ last.kind = "Skipped"
  /\ attempt[last.run] > 0
  /\ Len(duckdb_of(last.run).data) = 5
  /\ duckdb_of(last.run).data[1][2] < attempt[last.run]

\* C5: whenever Transform or Load returns success, skip-if-done included,
\* its output artifact exists and is non-empty.
C5_SuccessMeansNonEmptyOutput ==
  (last.op \in {"transform", "store"} /\ last.ok)
    => NonEmpty(fs[locationFor(last.op, last.run)])

\* C6: whenever Fetch returns success the raw artifact exists with non-zero
\* size; a curl that exits non-zero or times out, or a missing or zero-byte
\* file, ends the invocation in failure.
C6_FetchSuccessMeansData ==
  last.op = "fetch" =>
    /\ last.ok => (exists(raw_of(last.run)) /\ st_size(raw_of(last.run)) > 0)
    /\ last.how \in {"exitN", "timeout", "oserror"} => ~last.ok
    /\ (~exists(raw_of(last.run)) \/ st_size(raw_of(last.run)) = 0) => ~last.ok
    /\ last.ok => last.ret = locationFor("fetch", last.run)

\* C6 witness: Fetch returned success.
C6_Witness == last.op = "fetch" /\ last.ok /\ Len(raw_of(last.run).data) = MaxLen

StageOrder == <<"fetch", "transform", "store", "export">>

\* C7: within one attempt of a run a stage is invoked only after the stage
\* before it returned success, in the order Fetch, Transform, Load, Export;
\* after a failed stage no later stage is invoked.
C7_StagesInOrder ==
  \A r \in runs : \A i \in 2..4 :
    /\ task[r][StageOrder[i]] # "none" => task[r][StageOrder[i - 1]] = "success"
    /\ task[r][StageOrder[i - 1]] = "failed" =>
         \A j \in i..4 : task[r][StageOrder[j]] = "none"

\* C7 witness: Load failed after Fetch and Transform succeeded, Export was
\* not invoked, and the run cannot be cleared any more.
C7_Witness ==
  \E r \in runs :
    /\ task[r] = [s \in Stages |->
                    CASE s = "store" -> "failed"
                      [] s = "export" -> "none"
                      [] OTHER -> "success"]
    /\ attempt[r] = MaxReruns

\* C8: a stage invocation of one run leaves every file and every task of
\* the other run as they are, and whether it skips or fails for a missing
\* input is decided by the files of its own run alone.
C8_RunsIndependent ==
  [][\A r \in runs : \A stage \in Stages :
       Invokes(r, stage) =>
         /\ \A r2 \in RunIds \ {r} : \A s2 \in Stages :
              fs'[locationFor(s2, r2)] = fs[locationFor(s2, r2)]
         /\ \A r2 \in runs \ {r} : task'[r2] = task[r2] /\ ever'[r2] = ever[r2]
         /\ stage = "transform" =>
              /\ last'.kind = "Skipped" <=> exists(transformed_of(r))
              /\ last'.kind = "MissingInput" <=>
                   (~exists(transformed_of(r)) /\ ~exists(raw_of(r)))
         /\ stage = "store" =>
              /\ last'.kind = "Skipped" <=> exists(duckdb_of(r))
              /\ last'.kind = "MissingInput" <=>
                   (~exists(duckdb_of(r)) /\ ~exists(transformed_of(r)))]_vars

\* C8 witness: two runs, the tasks of the second one invoked between those
\* of the first, both with artifacts on disk.
C8_Witness ==
  \E r1, r2 \in runs :
    /\ r1 # r2
    /\ last.run = r1 /\ last.op = "export" /\ last.ok
    /\ task[r2]["transform"] = "success" /\ task[r2]["store"] = "none"
    /\ raw_of(r1).data # raw_of(r2).data
    /\ NonEmpty(transformed_of(r2))

\* locationFor maps no two different (stage, run identifier) pairs with
\* path-safe identifiers to one location
InjectiveOnPathSafeIds ==
  \A r1, r2 \in PathSafeIds : \A s1, s2 \in Stages :
    (s1 # s2 \/ r1 # r2) => locationFor(s1, r1) # locationFor(s2, r2)

\* C9: two different (stage, run identifier) pairs with path-safe
\* identifiers never resolve to the same location; the locations of a
\* triggered run are those of no other pair, and a stage returns the
\* location of its own pair.
C9_LocationsInjective ==
  /\ InjectiveOnPathSafeIds
  /\ runs \subseteq PathSafeIds
  /\ \A r1 \in runs : \A r2 \in RunIds : \A s1, s2 \in Stages :
       (s1 # s2 \/ r1 # r2) => locationFor(s1, r1) # locationFor(s2, r2)
  /\ (last.op \in {"fetch", "transform", "export"} /\ last.ok)
       => last.ret = locationFor(last.op, last.run)

\* C9 witness: all four stages of a run have resolved their locations and
\* left an artifact there.
C9_Witness ==
  \E r \in runs :
    /\ Len(r) > 1
    /\ \A s \in Stages : exists(fs[locationFor(s, r)])
    /\ last.op = "export" /\ last.run = r /\ last.ok

\* C10: when the report can be written, Export returns success and leaves
\* exactly the header line and the line <runId>,processed,<size>; with the
\* raw artifact absent the size is "0.00".
C10_ExportAlwaysReports ==
  (last.op = "export" /\ last.how = "written") =>
    LET report == report_of(last.run) IN
    /\ last.ok
    /\ exists(report)
    /\ Len(report.data) = 2
    /\ report.data[1] = <<"report_date", "status", "file_size_mb">>
    /\ Len(report.data[2]) = 3
    /\ report.data[2][1] = last.run
    /\ report.data[2][2] = "processed"
    /\ Len(report.data[2][3]) = 3
    /\ ~exists(raw_of(last.run)) => report.data[2][3] = <<0, 0, 0>>
    /\ NonEmpty(raw_of(last.run)) => report.data[2][3] # <<0, 0, 0>>

\* C10 witness: Export succeeded although the raw artifact was gone.
C10_Witness ==
  /\ last.op = "export"
  /\ last.ok
  /\ ~exists(raw_of(last.run))
  /\ report_of(last.run).data[2][3] = <<0, 0, 0>>

\* C11 as stated: an artifact that a successful stage invocation has created
\* never changes its content afterwards, whichever stage produced it.
C11_ArtifactsNeverChange ==
  [][\A r \in runs : \A stage \in Stages :
       (stage \in ever[r] /\ exists(fs[locationFor(stage, r)]))
         => fs'[locationFor(stage, r)] = fs[locationFor(stage, r)]]_vars

\* C11 amended: the transformed artifact and the store file, once a
\* successful Transform or Load has left them, never change their content
\* under later stage invocations and whole-run retries.
C11_TransformAndStoreNeverChange ==
  [][\A r \in runs : \A stage \in {"transform", "store"} :
       stage \in ever[r]
         => /\ exists(fs[locationFor(stage, r)])
            /\ fs'[locationFor(stage, r)] = fs[locationFor(stage, r)]]_vars

\* C11 witness: in a retry of the run Fetch has written another version of
\* the raw file, and Transform and Load have kept the artifacts of the
\* first attempt.
C11_Witness ==
  /\ last.op = "store"
  /\ last.ok
  /\ attempt[last.run] > 0
  /\ NonEmpty(raw_of(last.run))
  /\ Len(transformed_of(last.run).data) = Len(raw_of(last.run).data)
  /\ transformed_of(last.run).data # raw_of(last.run).data
  /\ Len(duckdb_of(last.run).data) = 5
  /\ duckdb_of(last.run).data[1][2] = 0

\* C12: whenever Transform returns success, the transformed artifact is
\* byte-identical to the raw artifact of the run as it is at that moment.
C12_TransformedEqualsRaw ==
  (last.op = "transform" /\ last.ok) =>
    /\ exists(raw_of(last.run))
    /\ exists(transformed_of(last.run))
    /\ transformed_of(last.run).data = raw_of(last.run).data

\* the stages before this one in the chain
Earlier(stage) ==
  {StageOrder[j] : j \in {i \in 1..4 : \E k \in (i + 1)..4 : StageOrder[k] = stage}}

\* C13: a stage invocation that fails leaves the artifacts of the earlier
\* stages of the run present and unchanged, and in a retry of the run
\* Transform and Load reuse their existing artifact through skip-if-done
\* instead of writing it again.
C13_FailureKeepsEarlierArtifacts ==
  [][\A r \in runs : \A stage \in Stages :
       /\ (Invokes(r, stage) /\ ~last'.ok)
            => \A e \in Earlier(stage) :
                 /\ exists(fs'[locationFor(e, r)])
                 /\ fs'[locationFor(e, r)] = fs[locationFor(e, r)]
       /\ (Invokes(r, stage) /\ stage \in {"transform", "store"}
             /\ attempt[r] > 0 /\ exists(fs[locationFor(stage, r)]))
            => /\ last'.kind = "Skipped"
               /\ last'.ok
               /\ fs' = fs]_vars

\* C13 witness: Load failed in the first attempt and left part of the store
\* file; in the retry Transform has skipped over its existing artifact.
C13_Witness ==
  /\ last.op = "transform"
  /\ last.kind = "Skipped"
  /\ attempt[last.run] > 0
  /\ "store" \notin ever[last.run]
  /\ Len(duckdb_of(last.run).data) \in 1..4

\* C14: in every stage a subprocess that exits non-zero or times out, a
\* file system error, or a failed check of the output ends the invocation
\* in a raised failure with nothing returned; only the raw file missing at
\* Export is tolerated.
C14_ErrorsAreRaised ==
  last.op \in Stages =>
    /\ last.how \in {"exitN", "timeout", "oserror"}
         => (~last.ok /\ Len(last.ret) = 0 /\ task[last.run][last.op] = "failed")
    /\ (last.op \in {"fetch", "transform"} /\ last.how = "exit0"
          /\ ~NonEmpty(fs[locationFor(last.op, last.run)]))
         => (~last.ok /\ Len(last.ret) = 0)
    /\ (last.op = "store" /\ last.how = "written" /\ ~exists(duckdb_of(last.run)))
         => ~last.ok
    /\ (last.op = "transform" /\ ~exists(raw_of(last.run)) /\ last.kind # "Skipped")
         => ~last.ok
    /\ (last.op = "store" /\ ~exists(transformed_of(last.run)) /\ last.kind # "Skipped")
         => ~last.ok
    /\ (last.op = "export" /\ last.how = "written" /\ ~exists(raw_of(last.run)))
         => last.ok

\* C14 witness: cp exited non-zero after Fetch had succeeded, and Transform
\* ended in a failure.
C14_Witness ==
  /\ last.op = "transform"
  /\ last.how = "exitN"
  /\ ~last.ok
  /\ task[last.run]["fetch"] = "success"
  /\ task[last.run]["transform"] = "failed"

\* C15: one Fetch invocation runs one curl process, which makes at most
\* 1 + 3 transfer attempts; with the retry budget used up and the last
\* attempt failed the invocation ends in failure, and the failed Fetch is
\* not invoked again on its own.
C15_FetchRetryBudget ==
  last.op = "fetch" =>
    /\ last.transfers <= 4
    /\ last.how # "oserror" => last.transfers >= 1
    /\ (last.transfers = 4 /\ last.how = "exitN")
         => (~last.ok /\ last.kind = "TransportFailure")
    /\ ~last.ok =>
         /\ task[last.run]["fetch"] = "failed"
         /\ ~ENABLED fetch_taxi_data(last.run)

\* C15 witness: curl used up its three retries, the fourth transfer attempt
\* failed too and Fetch ended in a failure.
C15_Witness ==
  /\ last.op = "fetch"
  /\ last.transfers = 4
  /\ last.how = "exitN"
  /\ ~last.ok

\* C16: every blocking I/O call of Fetch, Transform and Load is bounded by a
\* timeout: whenever such a call blocks, the timeout that ends the
\* invocation in a failure is there to fire.
C16_BlockedCallsTimeOut ==
  \A r \in runs : \A stage \in Stages :
    task[r][stage] = "blocked" => ENABLED TimeoutExpired(r, stage)

\* C17: a Load invocation that takes the skip-if-done path over a complete
\* store file returns the record count that the invocation which wrote the
\* file returned, the estimate from the run's unchanged transformed file.
C17_SkipReturnsSameCount ==
  (/\ last.op = "store"
   /\ last.kind = "Skipped"
   /\ exists(transformed_of(last.run))
   /\ Len(duckdb_of(last.run).data) = 5)
    => last.ret = <<EstimatedRecords(st_size(transformed_of(last.run)),
                                     InputRecordsPerMb)>>
====
